---- MODULE Spec2Model ----
(***************************************************************************)
(* Model of ligo_residual_analysis_v1_2_7.py: the strict-archival gate,    *)
(* the pinned whitening step, the run-record writer and the orchestrator.  *)
(*                                                                         *)
(* Conventions.  A call's outcome is a record [kind, cls, val]: kind is    *)
(* "return" or "raise", cls the exception class ("" on return) and val a   *)
(* sequence of strings: the returned value (empty for None) or the lines   *)
(* of the exception message.  Text is modelled by TLA+ strings built by    *)
(* concatenation, JSON bytes by the sequence of (path, rendered value)     *)
(* pairs in the order json.dumps(sort_keys=True) emits them.  sha256 is    *)
(* modelled as an ideal (collision-free) hash.                             *)
(***************************************************************************)
EXTENDS Integers, Sequences, FiniteSets, TLC

VARIABLES
    STRICT_ARCHIVAL,          \* module global, line 37
    ECHO_WINDOW,              \* module global, line 55 (hundredths)
    CONTROL_WINDOW,           \* module global, line 56 (hundredths)
    CODE_SHA256,              \* line 68
    CODE_SOURCE_MODE,         \* line 69
    _WHITEN_MODES_SEEN,       \* line 70
    _WHITEN_FALLBACK_REASON,  \* line 71
    _WHITEN_FALLBACK_LOGGED,  \* line 72
    versions,                 \* what sys.version_info and the libraries' __version__ report
    clock,                    \* wall clock, in ticks of 1/TicksPerSecond second
    files,                    \* the working directory: file name -> bytes written
    last,                     \* the call made by the last step, its inputs and outcome
    sinceReset,               \* history: the whiten_pinned calls since the last reset
    writeHist                 \* history: the number of completed writes, and the latest

vars == <<STRICT_ARCHIVAL, ECHO_WINDOW, CONTROL_WINDOW, CODE_SHA256, CODE_SOURCE_MODE,
          _WHITEN_MODES_SEEN, _WHITEN_FALLBACK_REASON, _WHITEN_FALLBACK_LOGGED,
          versions, clock, files, last, sinceReset, writeHist>>

------------------------------------------------------------------------------
\* Bounds of the model.

\* write_run_record calls completed in one behaviour
MaxWrites == 2
\* last tick of the wall clock
MaxClock == 2

------------------------------------------------------------------------------
\* Values and outcomes.

None == "<None>"

Return(v) == [kind |-> "return", cls |-> "", val |-> v]

Raise(c, lines) == [kind |-> "raise", cls |-> c, val |-> lines]

------------------------------------------------------------------------------
\* Program constants.

PINNED_VERSIONS ==
    [python |-> "3.11.9", gwpy |-> "3.0.8", numpy |-> "1.26.4", scipy |-> "1.13.1"]

PREREG_DATE == "2025-12-18"

PREREG_PAYLOAD_LITERAL == "{\"ctrl\":[1.5,1.6],\"echo\":[0.95,1.05]}"

\* hashlib.sha256(s.encode("utf-8")).hexdigest(), an ideal hash
Sha256Hex(s) == "sha256(" \o s \o ")"

\* hexdigest()[:16]
Hash16(s) == "h16:" \o Sha256Hex(s)

PREREG_HASH16 == Hash16(PREREG_PAYLOAD_LITERAL)

WHITEN_FFTLENGTH == 4

WHITEN_OVERLAP == 2

WHITEN_WINDOW == "hann"

------------------------------------------------------------------------------
\* Text conversions.

\* repr() of a float given in hundredths, as json.dumps writes it:
\* 150 -> "1.5", 95 -> "0.95", 100 -> "1.0", 161 -> "1.61"
FloatRepr(h) ==
    LET whole == h \div 100
        frac  == h % 100
    IN  ToString(whole) \o "." \o
        (IF frac % 10 = 0 THEN ToString(frac \div 10)
         ELSE IF frac < 10 THEN "0" \o ToString(frac)
         ELSE ToString(frac))

\* ".".join(parts)
RECURSIVE JoinDot(_)
JoinDot(p) ==
    IF p = <<>> THEN ""
    ELSE IF Len(p) = 1 THEN p[1]
    ELSE p[1] \o "." \o JoinDot(Tail(p))

VersionComponents == {ToString(i) : i \in 0..13}

\* s.split(".") of a three-component version string
SplitDot(s) == CHOOSE p \in [1..3 -> VersionComponents] : JoinDot(p) = s

\* f"{major}.{minor}.{micro}"
VersionInfoStr(vi) == JoinDot(<<ToString(vi[1]), ToString(vi[2]), ToString(vi[3])>>)

------------------------------------------------------------------------------
\* Code identity.

\* outcomes of probing the running source: a readable file, no __file__, a failing read
Probes ==
    { [kind |-> "file", data |-> "v1_2_7_source"],
      [kind |-> "nofile", data |-> ""],
      [kind |-> "ioerror", data |-> "Permission denied"] }

\* a variant whose failure branch reports no provenance mode
get_code_hash_best_effort_ErrorWithoutMode(probe) ==
    CASE probe.kind = "file"   -> <<Sha256Hex(probe.data), "file">>
      [] probe.kind = "nofile" -> <<"interactive", "interactive">>
      [] OTHER                 -> <<"error:" \o probe.data, "unknown">>

get_code_hash_best_effort(probe) ==
    CASE probe.kind = "file"   -> <<Sha256Hex(probe.data), "file">>
      [] probe.kind = "nofile" -> <<"interactive", "interactive">>
      [] OTHER                 -> <<"error:" \o probe.data, "error">>

------------------------------------------------------------------------------
\* Strict gate.

\* a variant that rejects only the interactive mode
enforce_file_based_execution_OnlyInteractive(strict, mode) ==
    IF strict /\ mode = "interactive"
    THEN Raise("RuntimeError",
               <<"STRICT_ARCHIVAL: Archival runs require file-based execution "
                 \o "(cannot verify source integrity in interactive mode).">>)
    ELSE Return(<<>>)

enforce_file_based_execution(strict, mode) ==
    IF strict /\ mode # "file"
    THEN Raise("RuntimeError",
               <<"STRICT_ARCHIVAL: Archival runs require file-based execution "
                 \o "(cannot verify source integrity in interactive mode).">>)
    ELSE Return(<<>>)

\* the mismatch line of one library
LibMismatch(name, expected, got) ==
    IF got # expected
    THEN << "  - " \o name \o ": expected " \o expected \o ", got " \o got >>
    ELSE <<>>

\* ".".join(PINNED_VERSIONS["python"].split(".")[:2])
expected_mm == JoinDot(SubSeq(SplitDot(PINNED_VERSIONS.python), 1, 2))

\* a variant that compares the runtime by its full version string
PythonMismatch_FullVersion(vi) ==
    LET python_version == VersionInfoStr(vi)
    IN  IF python_version # PINNED_VERSIONS.python
        THEN << "  - python: expected " \o expected_mm \o ".* (reference "
                \o PINNED_VERSIONS.python \o "), got " \o python_version >>
        ELSE <<>>

\* the mismatch line of the runtime
PythonMismatch(vi) ==
    LET python_version == VersionInfoStr(vi)
        actual_mm      == JoinDot(<<ToString(vi[1]), ToString(vi[2])>>)
    IN  IF actual_mm # expected_mm
        THEN << "  - python: expected " \o expected_mm \o ".* (reference "
                \o PINNED_VERSIONS.python \o "), got " \o python_version >>
        ELSE <<>>

\* a short-circuiting variant: stops at the first mismatch found
Mismatches_FirstOnly(v) ==
    LET all == PythonMismatch(v.python)
               \o LibMismatch("gwpy", PINNED_VERSIONS.gwpy, v.gwpy)
               \o LibMismatch("numpy", PINNED_VERSIONS.numpy, v.numpy)
               \o LibMismatch("scipy", PINNED_VERSIONS.scipy, v.scipy)
    IN  IF all = <<>> THEN <<>> ELSE <<Head(all)>>

\* the list the code builds, in the order it appends
Mismatches(v) ==
    PythonMismatch(v.python)
    \o LibMismatch("gwpy", PINNED_VERSIONS.gwpy, v.gwpy)
    \o LibMismatch("numpy", PINNED_VERSIONS.numpy, v.numpy)
    \o LibMismatch("scipy", PINNED_VERSIONS.scipy, v.scipy)

enforce_dependency_versions(strict, v) ==
    IF ~strict THEN Return(<<>>)
    ELSE LET mismatches == Mismatches(v)
         IN  IF mismatches # <<>>
             THEN Raise("RuntimeError",
                        <<"STRICT_ARCHIVAL: Dependency version mismatch detected:">>
                        \o mismatches)
             ELSE Return(<<>>)

\* a variant that leaves the upper end of the control window out of the comparison
CurrentPayload_IgnoreCtrlEnd(echo, ctrl) ==
    "{\"ctrl\":[" \o FloatRepr(ctrl[1]) \o "," \o FloatRepr(160)
    \o "],\"echo\":[" \o FloatRepr(echo[1]) \o "," \o FloatRepr(echo[2]) \o "]}"

\* json.dumps({"ctrl": [...], "echo": [...]}, sort_keys=True, separators=(",", ":"))
CurrentPayload(echo, ctrl) ==
    "{\"ctrl\":[" \o FloatRepr(ctrl[1]) \o "," \o FloatRepr(ctrl[2])
    \o "],\"echo\":[" \o FloatRepr(echo[1]) \o "," \o FloatRepr(echo[2]) \o "]}"

verify_window_preregistration(strict, echo, ctrl) ==
    LET current_payload == CurrentPayload(echo, ctrl)
        computed_hash16 == Hash16(current_payload)
    IN  IF strict /\ current_payload # PREREG_PAYLOAD_LITERAL
        THEN Raise("RuntimeError",
                   << "STRICT_ARCHIVAL: Window preregistration mismatch!",
                      "Expected literal payload: " \o PREREG_PAYLOAD_LITERAL,
                      "Computed current payload:  " \o current_payload >>)
        ELSE IF strict /\ computed_hash16 # PREREG_HASH16
        THEN Raise("RuntimeError",
                   << "STRICT_ARCHIVAL: Window preregistration hash mismatch!",
                      "Expected hash16 (" \o PREREG_DATE \o "): " \o PREREG_HASH16,
                      "Computed hash16:              " \o computed_hash16 >>)
        ELSE Return(<<computed_hash16>>)

\* a variant that leaves the dependency check out of the gate
initialize_strict_archival_or_fail_NoDependencyCheck(strict, probe, v, echo, ctrl) ==
    LET id == get_code_hash_best_effort(probe)
        r1 == enforce_file_based_execution(strict, id[2])
        r3 == verify_window_preregistration(strict, echo, ctrl)
        out == IF ~strict THEN Return(<<>>)
               ELSE IF r1.kind = "raise" THEN r1
               ELSE IF r3.kind = "raise" THEN r3
               ELSE Return(<<>>)
    IN  [sha |-> id[1], mode |-> id[2], outcome |-> out]

\* refresh_code_identity, then the three checks in order; the first raise ends it.
\* The result carries the refreshed identity and the outcome.
\* a variant that checks the dependencies before the execution context
initialize_strict_archival_or_fail_DependenciesFirst(strict, probe, v, echo, ctrl) ==
    LET id == get_code_hash_best_effort(probe)
        r1 == enforce_file_based_execution(strict, id[2])
        r2 == enforce_dependency_versions(strict, v)
        r3 == verify_window_preregistration(strict, echo, ctrl)
        out == IF ~strict THEN Return(<<>>)
               ELSE IF r2.kind = "raise" THEN r2
               ELSE IF r1.kind = "raise" THEN r1
               ELSE IF r3.kind = "raise" THEN r3
               ELSE Return(<<>>)
    IN  [sha |-> id[1], mode |-> id[2], outcome |-> out]

initialize_strict_archival_or_fail(strict, probe, v, echo, ctrl) ==
    LET id == get_code_hash_best_effort(probe)
        r1 == enforce_file_based_execution(strict, id[2])
        r2 == enforce_dependency_versions(strict, v)
        r3 == verify_window_preregistration(strict, echo, ctrl)
        out == IF ~strict THEN Return(<<>>)
               ELSE IF r1.kind = "raise" THEN r1
               ELSE IF r2.kind = "raise" THEN r2
               ELSE IF r3.kind = "raise" THEN r3
               ELSE Return(<<>>)
    IN  [sha |-> id[1], mode |-> id[2], outcome |-> out]

------------------------------------------------------------------------------
\* Whitening.

\* the keyword arguments of the pinned call, lines 201-206, and of the reduced
\* call, line 222
PinnedCall ==
    [asd |-> "asd", fftlength |-> WHITEN_FFTLENGTH, overlap |-> WHITEN_OVERLAP,
     window |-> WHITEN_WINDOW]

AsdOnlyCall == [asd |-> "asd"]

\* _StubTS.whiten(**kwargs) of strict_selfcheck_whitening_path
StubWhiten(kwargs) ==
    LET required == {"asd", "fftlength", "overlap", "window"}
    IN  IF ~(required \subseteq DOMAIN kwargs)
        THEN Raise("TypeError", <<"Missing pinned whitening kwargs">>)
        ELSE Return(<<"ok">>)

StubTS == [kind |-> "stub", onPinned |-> Return(<<>>), onAsdOnly |-> Return(<<>>)]

\* processing objects handed to whiten_pinned by callers: what their whiten does
\* when called with the four pinned keywords and when called with asd only
MockOk(r) ==
    [kind |-> "object", onPinned |-> Return(<<r>>), onAsdOnly |-> Return(<<r>>)]

MockTypeError(m) ==
    [kind |-> "object", onPinned |-> Raise("TypeError", <<m>>),
     onAsdOnly |-> Raise("TypeError", <<m>>)]

OldSignature(m, r) ==
    [kind |-> "object", onPinned |-> Raise("TypeError", <<m>>),
     onAsdOnly |-> Return(<<r>>)]

Broken(m) ==
    [kind |-> "object", onPinned |-> Raise("ValueError", <<m>>),
     onAsdOnly |-> Raise("ValueError", <<m>>)]

\* ts.whiten(**kwargs)
Whiten(ts, kwargs) ==
    IF ts.kind = "stub" THEN StubWhiten(kwargs)
    ELSE IF (DOMAIN PinnedCall) \subseteq (DOMAIN kwargs) THEN ts.onPinned
    ELSE ts.onAsdOnly

\* a variant that retries with asd only even under strict mode
whiten_pinned_FallbackInStrict(ts, strict, rt) ==
    LET first == Whiten(ts, PinnedCall)
    IN  IF first.kind = "return"
        THEN [modes |-> rt.modes \cup {"pinned_kwargs"}, reason |-> rt.reason,
              logged |-> rt.logged, outcome |-> first, calls |-> <<PinnedCall>>]
        ELSE IF first.cls # "TypeError"
        THEN [modes |-> rt.modes, reason |-> rt.reason, logged |-> rt.logged,
              outcome |-> first, calls |-> <<PinnedCall>>]
        ELSE [modes |-> rt.modes \cup {"asd_only_fallback"},
              reason |-> IF rt.reason = None THEN first.val[1] ELSE rt.reason,
              logged |-> TRUE,
              outcome |-> Whiten(ts, AsdOnlyCall),
              calls |-> <<PinnedCall, AsdOnlyCall>>]

\* a variant that does not record the pinned tag when the pinned call returns
whiten_pinned_NoTag(ts, strict, rt) ==
    LET first == Whiten(ts, PinnedCall)
    IN  IF first.kind = "return"
        THEN [modes |-> rt.modes, reason |-> rt.reason,
              logged |-> rt.logged, outcome |-> first, calls |-> <<PinnedCall>>]
        ELSE whiten_pinned_FallbackInStrict(ts, FALSE, rt)

\* a variant that also records the pinned tag when the reduced call returns
whiten_pinned_FallbackTagsPinned(ts, strict, rt) ==
    LET first == Whiten(ts, PinnedCall)
    IN  IF first.kind = "return"
        THEN [modes |-> rt.modes \cup {"pinned_kwargs"}, reason |-> rt.reason,
              logged |-> rt.logged, outcome |-> first, calls |-> <<PinnedCall>>]
        ELSE IF first.cls # "TypeError"
        THEN [modes |-> rt.modes, reason |-> rt.reason, logged |-> rt.logged,
              outcome |-> first, calls |-> <<PinnedCall>>]
        ELSE LET e       == first.val[1]
                 reason1 == IF rt.reason = None THEN e ELSE rt.reason
             IN  IF strict
                 THEN [modes |-> rt.modes \cup {"asd_only_fallback"}, reason |-> reason1,
                       logged |-> rt.logged,
                       outcome |-> Raise("RuntimeError",
                           <<"STRICT_ARCHIVAL: Whitening fallback not allowed. " \o e>>),
                       calls |-> <<PinnedCall>>]
                 ELSE [modes |-> rt.modes \cup {"asd_only_fallback", "pinned_kwargs"},
                       reason |-> reason1, logged |-> TRUE,
                       outcome |-> Whiten(ts, AsdOnlyCall),
                       calls |-> <<PinnedCall, AsdOnlyCall>>]

\* a variant that stores the message of every rejection, the latest one last
whiten_pinned_LatestReason(ts, strict, rt) ==
    LET first == Whiten(ts, PinnedCall)
    IN  IF first.kind = "return"
        THEN [modes |-> rt.modes \cup {"pinned_kwargs"}, reason |-> rt.reason,
              logged |-> rt.logged, outcome |-> first, calls |-> <<PinnedCall>>]
        ELSE IF first.cls # "TypeError"
        THEN [modes |-> rt.modes, reason |-> rt.reason, logged |-> rt.logged,
              outcome |-> first, calls |-> <<PinnedCall>>]
        ELSE LET e      == first.val[1]
                 modes1 == rt.modes \cup {"asd_only_fallback"}
             IN  IF strict
                 THEN [modes |-> modes1, reason |-> e, logged |-> rt.logged,
                       outcome |-> Raise("RuntimeError",
                           <<"STRICT_ARCHIVAL: Whitening fallback not allowed. " \o e>>),
                       calls |-> <<PinnedCall>>]
                 ELSE [modes |-> modes1, reason |-> e, logged |-> TRUE,
                       outcome |-> Whiten(ts, AsdOnlyCall),
                       calls |-> <<PinnedCall, AsdOnlyCall>>]

\* a variant whose handler catches every exception class
whiten_pinned_CatchesEveryException(ts, strict, rt) ==
    LET first == Whiten(ts, PinnedCall)
    IN  IF first.kind = "return"
        THEN [modes |-> rt.modes \cup {"pinned_kwargs"}, reason |-> rt.reason,
              logged |-> rt.logged, outcome |-> first, calls |-> <<PinnedCall>>]
        ELSE LET e       == first.val[1]
                 modes1  == rt.modes \cup {"asd_only_fallback"}
                 reason1 == IF rt.reason = None THEN e ELSE rt.reason
             IN  IF strict
                 THEN [modes |-> modes1, reason |-> reason1, logged |-> rt.logged,
                       outcome |-> Raise("RuntimeError",
                           <<"STRICT_ARCHIVAL: Whitening fallback not allowed. " \o e>>),
                       calls |-> <<PinnedCall>>]
                 ELSE [modes |-> modes1, reason |-> reason1, logged |-> TRUE,
                       outcome |-> Whiten(ts, AsdOnlyCall),
                       calls |-> <<PinnedCall, AsdOnlyCall>>]

\* a variant that under strict mode records the tag but not the reason
whiten_pinned_ReasonOnlyOnFallback(ts, strict, rt) ==
    LET first == Whiten(ts, PinnedCall)
    IN  IF first.kind = "return"
        THEN [modes |-> rt.modes \cup {"pinned_kwargs"}, reason |-> rt.reason,
              logged |-> rt.logged, outcome |-> first, calls |-> <<PinnedCall>>]
        ELSE IF first.cls # "TypeError"
        THEN [modes |-> rt.modes, reason |-> rt.reason, logged |-> rt.logged,
              outcome |-> first, calls |-> <<PinnedCall>>]
        ELSE LET e       == first.val[1]
                 modes1  == rt.modes \cup {"asd_only_fallback"}
                 reason1 == IF rt.reason = None THEN e ELSE rt.reason
             IN  IF strict
                 THEN [modes |-> modes1, reason |-> rt.reason, logged |-> rt.logged,
                       outcome |-> Raise("RuntimeError",
                           <<"STRICT_ARCHIVAL: Whitening fallback not allowed. " \o e>>),
                       calls |-> <<PinnedCall>>]
                 ELSE [modes |-> modes1, reason |-> reason1, logged |-> TRUE,
                       outcome |-> Whiten(ts, AsdOnlyCall),
                       calls |-> <<PinnedCall, AsdOnlyCall>>]

\* whiten_pinned(ts, asd) on the runtime state rt = [modes, reason, logged]:
\* the new runtime state, the outcome and the whiten calls made
whiten_pinned(ts, strict, rt) ==
    LET first == Whiten(ts, PinnedCall)
    IN  IF first.kind = "return"
        THEN [modes |-> rt.modes \cup {"pinned_kwargs"}, reason |-> rt.reason,
              logged |-> rt.logged, outcome |-> first, calls |-> <<PinnedCall>>]
        ELSE IF first.cls # "TypeError"
        THEN [modes |-> rt.modes, reason |-> rt.reason, logged |-> rt.logged,
              outcome |-> first, calls |-> <<PinnedCall>>]
        ELSE LET e       == first.val[1]
                 modes1  == rt.modes \cup {"asd_only_fallback"}
                 reason1 == IF rt.reason = None THEN e ELSE rt.reason
             IN  IF strict
                 THEN [modes |-> modes1, reason |-> reason1, logged |-> rt.logged,
                       outcome |-> Raise("RuntimeError",
                           <<"STRICT_ARCHIVAL: Whitening fallback not allowed. " \o e>>),
                       calls |-> <<PinnedCall>>]
                 ELSE [modes |-> modes1, reason |-> reason1, logged |-> TRUE,
                       outcome |-> Whiten(ts, AsdOnlyCall),
                       calls |-> <<PinnedCall, AsdOnlyCall>>]

strict_selfcheck_whitening_path(strict, rt) ==
    whiten_pinned(StubTS, strict, rt)

\* a variant that clears the fallback reason and flag but keeps the observed modes
reset_runtime_state_KeepModes(rt) ==
    [modes |-> rt.modes, reason |-> None, logged |-> FALSE]

reset_runtime_state(rt) ==
    [modes |-> {}, reason |-> None, logged |-> FALSE]

------------------------------------------------------------------------------
\* Python dicts and their canonical JSON.
\* A dict is a function from keys to values; a value is a rendered scalar
\* [t |-> "s", v |-> text] or a reference [t |-> "ref", v |-> id] to another dict
\* of the heap, so that a shallow copy shares its nested dicts as Python's does.

Scalar(text) == [t |-> "s", v |-> text]

Ref(id) == [t |-> "ref", v |-> id]

\* json rendering of a str (of the strings the records hold; escapes are not
\* modelled), of None and of a bool
Quote(s) == "\"" \o s \o "\""

JsonStrOrNull(s) == IF s = None THEN "null" ELSE Quote(s)

JsonBool(b) == IF b THEN "true" ELSE "false"

\* d[k] = val
DictSet(d, k, val) == [x \in (DOMAIN d) \cup {k} |-> IF x = k THEN val ELSE d[x]]

\* heap[id][k] = val
HeapSet(h, id, k, val) == [h EXCEPT ![id] = DictSet(h[id], k, val)]

\* a new dict object
HeapNew(h, id, d) == (id :> d) @@ h

\* every key the records use, in the order sort_keys=True puts them
KeyOrder ==
    << "arch", "code_sha256", "code_source_mode", "configuration", "date",
       "environment", "execution_flags", "gwpy", "hash16", "lal", "numpy", "os",
       "payload_literal", "platform_detail", "preregistration", "python", "qc_stats",
       "results", "rng_meta", "run_fingerprint_sha256", "run_fingerprint_short",
       "scipy", "strict_archival", "utc_timestamp", "whiten_fallback_reason",
       "whitening_modes_seen" >>

SortedKeys(D) == SelectSeq(KeyOrder, LAMBDA k : k \in D)

\* the order of the mode tags under Python's string comparison
ModeOrder == << "asd_only_fallback", "pinned_kwargs" >>

\* json rendering of sorted(list(modes))
SortedModesJson(modes) ==
    LET sorted == SelectSeq(ModeOrder, LAMBDA m : m \in modes)
    IN  CASE Len(sorted) = 0 -> "[]"
          [] Len(sorted) = 1 -> "[" \o Quote(sorted[1]) \o "]"
          [] OTHER           -> "[" \o Quote(sorted[1]) \o "," \o Quote(sorted[2]) \o "]"

\* json.dumps(obj, sort_keys=True, separators=(",", ":"), ensure_ascii=True):
\* the (path, rendered value) pairs in the order they are emitted
RECURSIVE DumpKeys(_, _, _, _)
DumpKeys(h, d, ks, prefix) ==
    IF ks = <<>> THEN <<>>
    ELSE LET k    == Head(ks)
             here == IF d[k].t = "s" THEN << <<prefix \o k, d[k].v>> >>
                     ELSE DumpKeys(h, h[d[k].v], SortedKeys(DOMAIN h[d[k].v]),
                                   prefix \o k \o ".")
         IN  here \o DumpKeys(h, d, Tail(ks), prefix)

_dump_json_bytes(h, id) == DumpKeys(h, h[id], SortedKeys(DOMAIN h[id]), "")

\* reading a written file back: its keys, and the value at a key
JsonKeys(bytes) == { bytes[i][1] : i \in 1..Len(bytes) }

JsonGet(bytes, path) ==
    LET i == CHOOSE i \in 1..Len(bytes) : bytes[i][1] = path
    IN  bytes[i][2]

------------------------------------------------------------------------------
\* Clock formats.

TicksPerSecond == 2

Second(t) == t \div TicksPerSecond

TwoDigits(n) == IF n < 10 THEN "0" \o ToString(n) ELSE ToString(n)

\* utcnow().replace(microsecond=0).isoformat() + "Z"
IsoZ(t) == "2025-12-18T00:00:" \o TwoDigits(Second(t)) \o "Z"

\* utcnow().strftime("%Y%m%dT%H%M%SZ")
StrfZ(t) == "20251218T0000" \o TwoDigits(Second(t)) \o "Z"

------------------------------------------------------------------------------
\* Artifact writer.

STABLE_FNAME == "run_record_LATEST.json"

UniqueFname(fp, t) == "run_record_" \o fp \o "_" \o StrfZ(t) \o ".json"

\* record_stable and its nested dicts, lines 269-298
BuildStable(a, g, prereg_hash16) ==
    LET environment ==
            [python |-> Scalar(Quote(VersionInfoStr(g.versions.python))),
             os     |-> Scalar(Quote("linux")),
             arch   |-> Scalar(Quote("x86_64")),
             numpy  |-> Scalar(Quote(g.versions.numpy)),
             scipy  |-> Scalar(Quote(g.versions.scipy)),
             gwpy   |-> Scalar(Quote(g.versions.gwpy)),
             lal    |-> Scalar("null")]
        execution_flags ==
            [strict_archival        |-> Scalar(JsonBool(g.strict)),
             whitening_modes_seen   |-> Scalar(SortedModesJson(g.modes)),
             whiten_fallback_reason |-> Scalar(JsonStrOrNull(g.reason))]
        preregistration ==
            [date            |-> Scalar(Quote(PREREG_DATE)),
             payload_literal |-> Scalar(Quote(PREREG_PAYLOAD_LITERAL)),
             hash16          |-> Scalar(Quote(prereg_hash16))]
        record_stable ==
            [run_fingerprint_short  |-> Scalar(Quote(a.fingerprint_short)),
             run_fingerprint_sha256 |-> Scalar(Quote(a.full_hash)),
             code_sha256            |-> Scalar(Quote(g.sha)),
             code_source_mode       |-> Scalar(Quote(g.mode)),
             environment            |-> Ref("environment"),
             execution_flags        |-> Ref("execution_flags"),
             preregistration        |-> Ref("preregistration"),
             rng_meta               |-> Scalar(a.rng_meta),
             qc_stats               |-> Scalar(a.qc_stats),
             results                |-> Scalar(a.results),
             configuration          |-> Scalar(a.config)]
    IN  ("record_stable" :> record_stable) @@ ("environment" :> environment)
        @@ ("execution_flags" :> execution_flags) @@ ("preregistration" :> preregistration)

\* a variant that adds platform_detail without first copying the environment dict
BuildAudit_SharedEnvironment(h0, t, platform_detail) ==
    LET h1 == HeapNew(h0, "record_unique", h0["record_stable"])
        h2 == HeapSet(h1, "record_unique", "utc_timestamp", Scalar(Quote(IsoZ(t))))
    IN  HeapSet(h2, h2["record_unique"]["environment"].v, "platform_detail",
                Scalar(Quote(platform_detail)))

\* record_unique, lines 300-304, on the heap holding record_stable
BuildAudit(h0, t, platform_detail) ==
    LET \* record_unique = dict(record_stable)
        h1 == HeapNew(h0, "record_unique", h0["record_stable"])
        \* record_unique["utc_timestamp"] = ...
        h2 == HeapSet(h1, "record_unique", "utc_timestamp", Scalar(Quote(IsoZ(t))))
        \* record_unique["environment"] = dict(record_unique["environment"])
        h3 == HeapNew(h2, "environment_copy", h2[h2["record_unique"]["environment"].v])
        h4 == HeapSet(h3, "record_unique", "environment", Ref("environment_copy"))
        \* record_unique["environment"]["platform_detail"] = platform.platform()
    IN  HeapSet(h4, h4["record_unique"]["environment"].v, "platform_detail",
                Scalar(Quote(platform_detail)))

\* f.write to an opened file: creates or overwrites
WriteFile(fs, name, bytes) == [x \in (DOMAIN fs) \cup {name} |-> IF x = name THEN bytes ELSE fs[x]]

\* a variant that writes the audit record to the stable name as well
write_run_record_StableGetsUnique(a, g, fs, t1, t2, platform_detail) ==
    LET prereg == verify_window_preregistration(g.strict, g.echo, g.ctrl)
    IN  IF prereg.kind = "raise"
        THEN [files |-> fs, outcome |-> prereg, wrote |-> <<>>]
        ELSE LET h0 == BuildStable(a, g, prereg.val[1])
                 h5 == BuildAudit(h0, t1, platform_detail)
                 unique_fname == UniqueFname(a.fingerprint_short, t2)
                 fs1 == WriteFile(fs, unique_fname, _dump_json_bytes(h5, "record_unique"))
                 fs2 == WriteFile(fs1, STABLE_FNAME, _dump_json_bytes(h5, "record_unique"))
             IN  [files |-> fs2, outcome |-> Return(<<>>),
                  wrote |-> <<unique_fname, STABLE_FNAME>>]

\* write_run_record with arguments a, reading the globals g, the clock at t1 (line
\* 301) and t2 (line 306) and the platform descriptor: the files after the call,
\* the outcome and the names written, in order
\* a variant that computes the hash of the live windows without re-verifying it
write_run_record_NoReverification(a, g, fs, t1, t2, platform_detail) ==
    LET h0 == BuildStable(a, g, Hash16(CurrentPayload(g.echo, g.ctrl)))
        h5 == BuildAudit(h0, t1, platform_detail)
        unique_fname == UniqueFname(a.fingerprint_short, t2)
        fs1 == WriteFile(fs, unique_fname, _dump_json_bytes(h5, "record_unique"))
        fs2 == WriteFile(fs1, STABLE_FNAME, _dump_json_bytes(h5, "record_stable"))
    IN  [files |-> fs2, outcome |-> Return(<<>>), wrote |-> <<unique_fname, STABLE_FNAME>>]

write_run_record(a, g, fs, t1, t2, platform_detail) ==
    LET prereg == verify_window_preregistration(g.strict, g.echo, g.ctrl)
    IN  IF prereg.kind = "raise"
        THEN [files |-> fs, outcome |-> prereg, wrote |-> <<>>]
        ELSE LET h0 == BuildStable(a, g, prereg.val[1])
                 h5 == BuildAudit(h0, t1, platform_detail)
                 unique_fname == UniqueFname(a.fingerprint_short, t2)
                 fs1 == WriteFile(fs, unique_fname, _dump_json_bytes(h5, "record_unique"))
                 fs2 == WriteFile(fs1, STABLE_FNAME, _dump_json_bytes(h5, "record_stable"))
             IN  [files |-> fs2, outcome |-> Return(<<>>),
                  wrote |-> <<unique_fname, STABLE_FNAME>>]

\* the arguments run_full_forensics passes, lines 334-341
ExampleArgs ==
    [fingerprint_short |-> "example_fp", full_hash |-> "example_sha256",
     config |-> "{\"example\":true}", results |-> "{\"example\":true}",
     qc_stats |-> "{\"example\":true}", rng_meta |-> "{\"seed\":42}"]

\* run_full_forensics on the globals g (strict, windows, versions, runtime state):
\* the globals after the run, the files, the outcome, the names written and the
\* self-check's whiten_pinned result when the run got that far
run_full_forensics(g, fs, probe, t1, t2, platform_detail) ==
    LET rt0  == reset_runtime_state([modes |-> g.modes, reason |-> g.reason, logged |-> g.logged])
        init == initialize_strict_archival_or_fail(g.strict, probe, g.versions, g.echo, g.ctrl)
        g1   == [g EXCEPT !.modes = rt0.modes, !.reason = rt0.reason, !.logged = rt0.logged,
                          !.sha = init.sha, !.mode = init.mode]
    IN  IF init.outcome.kind = "raise"
        THEN [g |-> g1, files |-> fs, outcome |-> init.outcome, wrote |-> <<>>,
              selfcheck |-> <<>>]
        ELSE LET w  == strict_selfcheck_whitening_path(g1.strict,
                           [modes |-> g1.modes, reason |-> g1.reason, logged |-> g1.logged])
                 g2 == [g1 EXCEPT !.modes = w.modes, !.reason = w.reason, !.logged = w.logged]
             IN  IF w.outcome.kind = "raise"
                 THEN [g |-> g2, files |-> fs, outcome |-> w.outcome, wrote |-> <<>>,
                       selfcheck |-> <<w>>]
                 ELSE LET r == write_run_record(ExampleArgs, g2, fs, t1, t2, platform_detail)
                      IN  [g |-> g2, files |-> r.files, outcome |-> r.outcome,
                           wrote |-> r.wrote, selfcheck |-> <<w>>]

------------------------------------------------------------------------------
\* State.

\* the globals the operations read, as one record
Globals ==
    [strict |-> STRICT_ARCHIVAL, echo |-> ECHO_WINDOW, ctrl |-> CONTROL_WINDOW,
     sha |-> CODE_SHA256, mode |-> CODE_SOURCE_MODE,
     modes |-> _WHITEN_MODES_SEEN, reason |-> _WHITEN_FALLBACK_REASON,
     logged |-> _WHITEN_FALLBACK_LOGGED, versions |-> versions]

RuntimeState ==
    [modes |-> _WHITEN_MODES_SEEN, reason |-> _WHITEN_FALLBACK_REASON,
     logged |-> _WHITEN_FALLBACK_LOGGED]

NoCall ==
    [op |-> "none", arg |-> <<>>, kind |-> "return", cls |-> "", val |-> <<>>,
     calls |-> <<>>, wrote |-> <<>>]

Called(op, arg, outcome, calls, wrote) ==
    [op |-> op, arg |-> arg, kind |-> outcome.kind, cls |-> outcome.cls,
     val |-> outcome.val, calls |-> calls, wrote |-> wrote]

PinnedLive ==
    [python |-> <<3, 11, 9>>, gwpy |-> "3.0.8", numpy |-> "1.26.4", scipy |-> "1.13.1"]

\* the module as imported, lines 37-72, in the pinned environment with an empty
\* working directory
Init ==
    /\ STRICT_ARCHIVAL = TRUE
    /\ ECHO_WINDOW = <<95, 105>>
    /\ CONTROL_WINDOW = <<150, 160>>
    /\ CODE_SHA256 = "unknown"
    /\ CODE_SOURCE_MODE = "unknown"
    /\ _WHITEN_MODES_SEEN = {}
    /\ _WHITEN_FALLBACK_REASON = None
    /\ _WHITEN_FALLBACK_LOGGED = FALSE
    /\ versions = PinnedLive
    /\ clock = 0
    /\ files = << >>
    /\ last = NoCall
    /\ sinceReset = "fresh"
    /\ writeHist = [n |-> 0, prev |-> <<>>]

varsConfig == <<STRICT_ARCHIVAL, ECHO_WINDOW, CONTROL_WINDOW, versions>>
varsIdentity == <<CODE_SHA256, CODE_SOURCE_MODE>>
varsWhiten == <<_WHITEN_MODES_SEEN, _WHITEN_FALLBACK_REASON, _WHITEN_FALLBACK_LOGGED, sinceReset>>
varsFiles == <<clock, files, writeHist>>

------------------------------------------------------------------------------
\* The environment: assignments to the module's globals, monkeypatched version
\* reporters, the passing of time.

SetStrict ==
    /\ STRICT_ARCHIVAL' = ~STRICT_ARCHIVAL
    /\ last' = NoCall
    /\ UNCHANGED <<ECHO_WINDOW, CONTROL_WINDOW, versions, varsIdentity, varsWhiten, varsFiles>>

SetEcho(W) ==
    \E w \in W :
        /\ w # ECHO_WINDOW
        /\ ECHO_WINDOW' = w
        /\ last' = NoCall
        /\ UNCHANGED <<STRICT_ARCHIVAL, CONTROL_WINDOW, versions, varsIdentity, varsWhiten, varsFiles>>

SetControl(W) ==
    \E w \in W :
        /\ w # CONTROL_WINDOW
        /\ CONTROL_WINDOW' = w
        /\ last' = NoCall
        /\ UNCHANGED <<STRICT_ARCHIVAL, ECHO_WINDOW, versions, varsIdentity, varsWhiten, varsFiles>>

SetPython(V) ==
    \E v \in V :
        /\ v # versions.python
        /\ versions' = [versions EXCEPT !.python = v]
        /\ last' = NoCall
        /\ UNCHANGED <<STRICT_ARCHIVAL, ECHO_WINDOW, CONTROL_WINDOW, varsIdentity, varsWhiten, varsFiles>>

SetLib(L, V) ==
    \E name \in L : \E v \in V \cup {PINNED_VERSIONS[name]} :
        /\ v # versions[name]
        /\ versions' = [versions EXCEPT ![name] = v]
        /\ last' = NoCall
        /\ UNCHANGED <<STRICT_ARCHIVAL, ECHO_WINDOW, CONTROL_WINDOW, varsIdentity, varsWhiten, varsFiles>>

Tick ==
    /\ clock < MaxClock
    /\ clock' = clock + 1
    /\ last' = NoCall
    /\ UNCHANGED <<varsConfig, varsIdentity, varsWhiten, files, writeHist>>

------------------------------------------------------------------------------
\* Calls.

Call_reset_runtime_state ==
    LET rt == reset_runtime_state(RuntimeState)
    IN  /\ _WHITEN_MODES_SEEN' = rt.modes
        /\ _WHITEN_FALLBACK_REASON' = rt.reason
        /\ _WHITEN_FALLBACK_LOGGED' = rt.logged
        /\ sinceReset' = "fresh"
        /\ last' = Called("reset_runtime_state", <<>>, Return(<<>>), <<>>, <<>>)
        /\ UNCHANGED <<varsConfig, varsIdentity, varsFiles>>

Call_refresh_code_identity ==
    \E probe \in Probes :
        LET id == get_code_hash_best_effort(probe)
        IN  /\ CODE_SHA256' = id[1]
            /\ CODE_SOURCE_MODE' = id[2]
            /\ last' = Called("refresh_code_identity", <<probe>>, Return(<<>>), <<>>, <<>>)
            /\ UNCHANGED <<varsConfig, varsWhiten, varsFiles>>

Call_enforce_file_based_execution ==
    /\ last' = Called("enforce_file_based_execution", <<>>,
                      enforce_file_based_execution(STRICT_ARCHIVAL, CODE_SOURCE_MODE),
                      <<>>, <<>>)
    /\ UNCHANGED <<varsConfig, varsIdentity, varsWhiten, varsFiles>>

Call_enforce_dependency_versions ==
    /\ last' = Called("enforce_dependency_versions", <<>>,
                      enforce_dependency_versions(STRICT_ARCHIVAL, versions), <<>>, <<>>)
    /\ UNCHANGED <<varsConfig, varsIdentity, varsWhiten, varsFiles>>

\* a variant that puts the preregistered windows back when the check fails
Call_verify_window_preregistration_RestoresWindows ==
    \E r \in {verify_window_preregistration(STRICT_ARCHIVAL, ECHO_WINDOW, CONTROL_WINDOW)} :
        /\ last' = Called("verify_window_preregistration", <<>>, r, <<>>, <<>>)
        /\ ECHO_WINDOW' = IF r.kind = "raise" THEN <<95, 105>> ELSE ECHO_WINDOW
        /\ CONTROL_WINDOW' = IF r.kind = "raise" THEN <<150, 160>> ELSE CONTROL_WINDOW
        /\ UNCHANGED <<STRICT_ARCHIVAL, versions, varsIdentity, varsWhiten, varsFiles>>

Call_verify_window_preregistration ==
    /\ last' = Called("verify_window_preregistration", <<>>,
                      verify_window_preregistration(STRICT_ARCHIVAL, ECHO_WINDOW, CONTROL_WINDOW),
                      <<>>, <<>>)
    /\ UNCHANGED <<varsConfig, varsIdentity, varsWhiten, varsFiles>>

Call_initialize_strict_archival_or_fail ==
    \E probe \in Probes :
        LET r == initialize_strict_archival_or_fail(STRICT_ARCHIVAL, probe, versions,
                                                    ECHO_WINDOW, CONTROL_WINDOW)
        IN  /\ CODE_SHA256' = r.sha
            /\ CODE_SOURCE_MODE' = r.mode
            /\ last' = Called("initialize_strict_archival_or_fail", <<probe>>, r.outcome,
                              <<>>, <<>>)
            /\ UNCHANGED <<varsConfig, varsWhiten, varsFiles>>

\* the summary of the whiten_pinned calls since the last reset: none yet, only calls
\* whose pinned invocation returned, or some call whose pinned invocation raised
NextSinceReset(h, calls, outcome) ==
    IF h = "mixed" \/ Len(calls) > 1 \/ outcome.kind = "raise" THEN "mixed" ELSE "ok_only"

Call_whiten_pinned(TS) ==
    \E ts \in TS :
        \E r \in {whiten_pinned(ts, STRICT_ARCHIVAL, RuntimeState)} :
            /\ _WHITEN_MODES_SEEN' = r.modes
            /\ _WHITEN_FALLBACK_REASON' = r.reason
            /\ _WHITEN_FALLBACK_LOGGED' = r.logged
            /\ sinceReset' = NextSinceReset(sinceReset, r.calls, r.outcome)
            /\ last' = Called("whiten_pinned", <<ts>>, r.outcome, r.calls, <<>>)
            /\ UNCHANGED <<varsConfig, varsIdentity, varsFiles>>

Call_strict_selfcheck_whitening_path ==
    \E r \in {strict_selfcheck_whitening_path(STRICT_ARCHIVAL, RuntimeState)} :
        /\ _WHITEN_MODES_SEEN' = r.modes
        /\ _WHITEN_FALLBACK_REASON' = r.reason
        /\ _WHITEN_FALLBACK_LOGGED' = r.logged
        /\ sinceReset' = NextSinceReset(sinceReset, r.calls, r.outcome)
        /\ last' = Called("strict_selfcheck_whitening_path", <<>>, r.outcome, r.calls, <<>>)
        /\ UNCHANGED <<varsConfig, varsIdentity, varsFiles>>

\* the record of a completed write: its arguments, the globals it read, the clock
\* and platform descriptor it observed, the audit name it wrote, the bytes of
\* run_record_LATEST.json read back after it, and how it relates to the completed
\* write before it (h is empty or holds that write's record)
WriteEntry(h, a, g, t1, t2, platform_detail, r) ==
    [a |-> a, g |-> g, t1 |-> t1, t2 |-> t2, platform_detail |-> platform_detail,
     audit |-> r.wrote[1], stableRead |-> r.files[r.wrote[2]],
     second |-> h # <<>>,
     repeat |-> h # <<>> /\ h[1].a = a /\ h[1].g = g,
     otherSecond |-> h # <<>> /\ Second(h[1].t1) # Second(t1),
     otherPlatform |-> h # <<>> /\ h[1].platform_detail # platform_detail,
     sameAudit |-> h # <<>> /\ h[1].audit = r.wrote[1]]

Call_write_run_record(A, P, D) ==
    \E a \in A, platform_detail \in P, d \in D :
        /\ writeHist.n < MaxWrites
        /\ clock + d <= MaxClock
        /\ \E r \in {write_run_record(a, Globals, files, clock, clock + d, platform_detail)} :
               /\ files' = r.files
               /\ clock' = IF r.wrote = <<>> THEN clock ELSE clock + d
               /\ writeHist' = IF r.outcome.kind = "raise" THEN writeHist
                               ELSE [n |-> writeHist.n + 1,
                                     prev |-> <<WriteEntry(writeHist.prev, a, Globals, clock,
                                                           clock + d, platform_detail, r)>>]
               /\ last' = Called("write_run_record", <<a>>, r.outcome, <<>>, r.wrote)
        /\ UNCHANGED <<varsConfig, varsIdentity, varsWhiten>>

Call_run_full_forensics(PR, P, D) ==
    \E probe \in PR, platform_detail \in P, d \in D :
        /\ writeHist.n < MaxWrites
        /\ clock + d <= MaxClock
        /\ \E r \in {run_full_forensics(Globals, files, probe, clock, clock + d, platform_detail)} :
               /\ CODE_SHA256' = r.g.sha
               /\ CODE_SOURCE_MODE' = r.g.mode
               /\ _WHITEN_MODES_SEEN' = r.g.modes
               /\ _WHITEN_FALLBACK_REASON' = r.g.reason
               /\ _WHITEN_FALLBACK_LOGGED' = r.g.logged
               /\ sinceReset' = IF r.selfcheck = <<>> THEN "fresh"
                                ELSE NextSinceReset("fresh", r.selfcheck[1].calls,
                                                    r.selfcheck[1].outcome)
               /\ files' = r.files
               /\ clock' = IF r.wrote = <<>> THEN clock ELSE clock + d
               /\ writeHist' = IF r.wrote = <<>> THEN writeHist
                               ELSE [n |-> writeHist.n + 1,
                                     prev |-> <<WriteEntry(writeHist.prev, ExampleArgs, r.g,
                                                           clock, clock + d, platform_detail, r)>>]
               /\ last' = Called("run_full_forensics", <<probe>>, r.outcome, <<>>, r.wrote)
        /\ UNCHANGED varsConfig

------------------------------------------------------------------------------
\* The strict gate on its own: the configuration and the environment change,
\* the checks are called.

EchoChoices == { <<95, 105>>, <<96, 105>>, <<95, 106>>, <<94, 105>>, <<95, 100>> }

ControlChoices == { <<150, 160>>, <<151, 160>>, <<150, 161>>, <<149, 160>>, <<150, 200>> }

PythonChoices == { <<3, 11, 9>>, <<3, 11, 4>>, <<3, 10, 9>>, <<3, 12, 0>> }

Libs == {"gwpy", "numpy", "scipy"}

OtherLibVersions == {"2.0.0"}

NextGate ==
    \/ SetStrict
    \/ SetEcho(EchoChoices)
    \/ SetControl(ControlChoices)
    \/ SetPython(PythonChoices)
    \/ SetLib(Libs, OtherLibVersions)
    \/ Call_refresh_code_identity
    \/ Call_enforce_file_based_execution
    \/ Call_enforce_dependency_versions
    \/ Call_verify_window_preregistration
    \/ Call_initialize_strict_archival_or_fail

SpecGate == Init /\ [][NextGate]_vars

------------------------------------------------------------------------------
\* Claims about the strict gate (checked under SpecGate).

\* the line the failure message carries for a mismatched library
ExpectedLibLine(name) ==
    "  - " \o name \o ": expected " \o PINNED_VERSIONS[name] \o ", got " \o versions[name]

\* the line the failure message carries for a mismatched runtime
ExpectedPythonLine ==
    "  - python: expected 3.11.* (reference 3.11.9), got " \o VersionInfoStr(versions.python)

MessageLines == { last.val[i] : i \in 1..Len(last.val) }

\* the live tuple differs from PINNED_VERSIONS in some entry, each entry compared
\* as the full version string
DiffersFromPinned ==
    \/ VersionInfoStr(versions.python) # PINNED_VERSIONS.python
    \/ \E name \in Libs : versions[name] # PINNED_VERSIONS[name]

\* the runtime compared by major.minor only
PythonMismatched == <<versions.python[1], versions.python[2]>> # <<3, 11>>

MismatchedLibs == { name \in Libs : versions[name] # PINNED_VERSIONS[name] }

DepsCalledStrict == last.op = "enforce_dependency_versions" /\ STRICT_ARCHIVAL

\* C4 as stated: under strict mode, whenever the live version tuple differs from
\* PINNED_VERSIONS in at least one entry, enforce_dependency_versions fails and its
\* one message lists every differing entry.
C4_AsStated ==
    (DepsCalledStrict /\ DiffersFromPinned) =>
        /\ last.kind = "raise"
        /\ (VersionInfoStr(versions.python) # PINNED_VERSIONS.python
               => ExpectedPythonLine \in MessageLines)
        /\ \A name \in MismatchedLibs : ExpectedLibLine(name) \in MessageLines

\* C4 amended: under strict mode, whenever the runtime's major.minor differs from
\* the pinned 3.11 or a library's version string differs from its pin,
\* enforce_dependency_versions fails with one RuntimeError whose message is the
\* header line followed by one line per mismatched entry, every one of them; a
\* runtime that differs from the pinned one in its patch component only is no
\* mismatch.
C4_ListsEveryMismatch ==
    (DepsCalledStrict /\ (PythonMismatched \/ MismatchedLibs # {})) =>
        /\ last.kind = "raise"
        /\ last.cls = "RuntimeError"
        /\ last.val[1] = "STRICT_ARCHIVAL: Dependency version mismatch detected:"
        /\ (PythonMismatched => ExpectedPythonLine \in MessageLines)
        /\ \A name \in MismatchedLibs : ExpectedLibLine(name) \in MessageLines
        /\ Len(last.val) = 1 + Cardinality(MismatchedLibs) + (IF PythonMismatched THEN 1 ELSE 0)

\* a failing call with the runtime and two libraries mismatched at once
C4_Witness ==
    /\ DepsCalledStrict
    /\ last.kind = "raise"
    /\ PythonMismatched
    /\ Cardinality(MismatchedLibs) = 2

\* C5: under strict mode verify_window_preregistration returns the frozen
\* PREREG_HASH16 when the live windows are the preregistered ones, and raises the
\* preregistration mismatch whenever a window boundary holds another value.
C5_PreregistrationBinding ==
    (last.op = "verify_window_preregistration" /\ STRICT_ARCHIVAL) =>
        IF ECHO_WINDOW = <<95, 105>> /\ CONTROL_WINDOW = <<150, 160>>
        THEN last.kind = "return" /\ last.val = <<PREREG_HASH16>>
        ELSE /\ last.kind = "raise"
             /\ last.cls = "RuntimeError"
             /\ last.val[1] = "STRICT_ARCHIVAL: Window preregistration mismatch!"

\* a failing call with exactly one boundary altered, the upper end of the control window
C5_Witness ==
    /\ last.op = "verify_window_preregistration"
    /\ STRICT_ARCHIVAL
    /\ ECHO_WINDOW = <<95, 105>>
    /\ CONTROL_WINDOW = <<150, 161>>
    /\ last.kind = "raise"

\* C8: under strict mode enforce_file_based_execution raises exactly when the code
\* provenance mode is not "file": it raises for "interactive", "error" and
\* "unknown", and returns for "file".
C8_FileExecutionEnforced ==
    (last.op = "enforce_file_based_execution" /\ STRICT_ARCHIVAL) =>
        /\ CODE_SOURCE_MODE \in {"interactive", "error", "unknown"}
              => (last.kind = "raise" /\ last.cls = "RuntimeError")
        /\ CODE_SOURCE_MODE = "file" => last.kind = "return"

\* a refused call in a mode other than "interactive"
C8_Witness ==
    /\ last.op = "enforce_file_based_execution"
    /\ STRICT_ARCHIVAL
    /\ CODE_SOURCE_MODE = "error"
    /\ last.kind = "raise"

------------------------------------------------------------------------------
\* The whitening step: direct calls with processing objects of every behaviour,
\* resets, strict mode switched on and off, and artifacts written in between.

TsObjects ==
    { MockOk("ok"), MockOk("whitened"),
      MockTypeError("Bad kwarg"),
      OldSignature("whiten() got an unexpected keyword argument 'fftlength'", "whitened_asd_only"),
      Broken("bad data") }

TestArgs ==
    [fingerprint_short |-> "fp", full_hash |-> "hash", config |-> "{\"a\":1}",
     results |-> "{\"r\":2}", qc_stats |-> "{}", rng_meta |-> "{\"seed\":1}"]

Platforms == { "Linux-6.1.0-x86_64-with-glibc2.36", "Linux-6.8.0-x86_64-with-glibc2.39" }

NextWhiten ==
    \/ SetStrict
    \/ Call_reset_runtime_state
    \/ Call_whiten_pinned(TsObjects)
    \/ Call_strict_selfcheck_whitening_path
    \/ Call_write_run_record({TestArgs}, {"Linux-6.1.0-x86_64-with-glibc2.36"}, {0})

SpecWhiten == Init /\ [][NextWhiten]_vars

\* the pinned call of the object handed to the last whiten_pinned call
LastPinned == last.arg[1].onPinned

\* C1: under strict mode, when the object's pinned whiten call raises TypeError,
\* whiten_pinned raises RuntimeError "Whitening fallback not allowed", having called
\* the object's whiten once, with the pinned keywords, and never with asd only.
C1_StrictRefusesFallback ==
    (/\ last.op = "whiten_pinned"
     /\ STRICT_ARCHIVAL
     /\ LastPinned.kind = "raise"
     /\ LastPinned.cls = "TypeError") =>
        /\ last.kind = "raise"
        /\ last.cls = "RuntimeError"
        /\ last.val = <<"STRICT_ARCHIVAL: Whitening fallback not allowed. " \o LastPinned.val[1]>>
        /\ last.calls = <<PinnedCall>>

\* a strict call refused for an object that would have accepted the reduced call
C1_Witness ==
    /\ last.op = "whiten_pinned"
    /\ STRICT_ARCHIVAL
    /\ LastPinned.kind = "raise"
    /\ LastPinned.cls = "TypeError"
    /\ last.arg[1].onAsdOnly.kind = "return"
    /\ last.kind = "raise"

StableBytes == files[STABLE_FNAME]

\* C9: when every whiten_pinned call since the last reset had its pinned call
\* return, the observed modes are exactly {"pinned_kwargs"} and the fallback reason
\* is None; such a call returns the object's own result; and a Stable artifact
\* written in that state reports whitening_modes_seen as ["pinned_kwargs"].
C9_PinnedOnly ==
    /\ sinceReset = "ok_only" =>
          /\ _WHITEN_MODES_SEEN = {"pinned_kwargs"}
          /\ _WHITEN_FALLBACK_REASON = None
    /\ (last.op = "whiten_pinned" /\ LastPinned.kind = "return") =>
          /\ last.kind = "return"
          /\ last.val = LastPinned.val
          /\ last.calls = <<PinnedCall>>
    /\ (last.op = "write_run_record" /\ last.kind = "return" /\ sinceReset = "ok_only") =>
          JsonGet(StableBytes, "execution_flags.whitening_modes_seen") = "[\"pinned_kwargs\"]"

\* an artifact written after successful pinned calls only
C9_Witness ==
    /\ last.op = "write_run_record"
    /\ last.kind = "return"
    /\ sinceReset = "ok_only"
    /\ JsonGet(StableBytes, "execution_flags.whitening_modes_seen") = "[\"pinned_kwargs\"]"

------------------------------------------------------------------------------
\* The artifact writer: sequential write_run_record calls while time passes and
\* the globals the record reads change in between.

TestArgsB == [TestArgs EXCEPT !.config = "{\"a\":2}"]

PinnedAndAlteredControl == { <<150, 160>>, <<150, 161>> }

NextWrite ==
    \/ Tick
    \/ SetStrict
    \/ SetControl(PinnedAndAlteredControl)
    \/ Call_reset_runtime_state
    \/ Call_whiten_pinned({MockOk("ok")})
    \/ Call_write_run_record({TestArgs, TestArgsB}, Platforms, {0})

SpecWrite == Init /\ [][NextWrite]_vars


\* the step is a completed write_run_record call that follows an earlier one
SecondWrite ==
    /\ last'.op = "write_run_record"
    /\ last'.kind = "return"
    /\ writeHist.prev # <<>>

Earlier == writeHist.prev[1]

Later == writeHist'.prev[1]

SameArguments == Later.a = Earlier.a

SameRuntimeState ==
    /\ Later.g.sha = Earlier.g.sha
    /\ Later.g.mode = Earlier.g.mode
    /\ Later.g.modes = Earlier.g.modes
    /\ Later.g.reason = Earlier.g.reason

SameConfiguration ==
    /\ Later.g.strict = Earlier.g.strict
    /\ Later.g.echo = Earlier.g.echo
    /\ Later.g.ctrl = Earlier.g.ctrl
    /\ Later.g.versions = Earlier.g.versions

\* C2 as stated: a write_run_record call whose arguments and RuntimeState
\* (CODE_SHA256, CODE_SOURCE_MODE, _WHITEN_MODES_SEEN, _WHITEN_FALLBACK_REASON) equal
\* those of the write before it leaves run_record_LATEST.json byte-identical.
C2_AsStated ==
    [][(SecondWrite /\ SameArguments /\ SameRuntimeState)
          => files'[STABLE_FNAME] = files[STABLE_FNAME]]_vars

\* C2 amended: a write_run_record call whose arguments, RuntimeState, strict flag,
\* live windows and reported dependency versions equal those of the write before it
\* leaves run_record_LATEST.json byte-identical, whatever the two wall-clock times
\* and platform descriptors.
C2_StableIsReproducible ==
    [][(SecondWrite /\ SameArguments /\ SameRuntimeState /\ SameConfiguration)
          => files'[STABLE_FNAME] = files[STABLE_FNAME]]_vars

\* a repeated write in another second, on another platform descriptor, with the
\* stable file as the earlier write left it
C2_Witness ==
    /\ last.op = "write_run_record"
    /\ last.kind = "return"
    /\ writeHist.prev # <<>>
    /\ writeHist.prev[1].repeat
    /\ writeHist.prev[1].otherSecond
    /\ writeHist.prev[1].otherPlatform
    /\ files[STABLE_FNAME] = writeHist.prev[1].stableRead

\* the last call was a completed write_run_record
Wrote == last.op = "write_run_record" /\ last.kind = "return"

AuditBytes == files[last.wrote[1]]

AuditOnlyKeys == {"utc_timestamp", "environment.platform_detail"}

\* the stable record as built from the call's arguments and the globals, before
\* the audit record is derived from it
StableAsBuilt ==
    _dump_json_bytes(
        BuildStable(last.arg[1], Globals,
                    verify_window_preregistration(STRICT_ARCHIVAL, ECHO_WINDOW,
                                                  CONTROL_WINDOW).val[1]),
        "record_stable")

\* C6: after every write_run_record call the stable file has neither utc_timestamp
\* nor environment.platform_detail, the audit file has both and otherwise the
\* stable file's keys and values, and the stable file holds the stable record
\* exactly as built before the audit record was derived from it.
C6_StableHasNoAuditFields ==
    Wrote =>
        /\ JsonKeys(StableBytes) \cap AuditOnlyKeys = {}
        /\ AuditOnlyKeys \subseteq JsonKeys(AuditBytes)
        /\ JsonKeys(AuditBytes) = JsonKeys(StableBytes) \cup AuditOnlyKeys
        /\ \A k \in JsonKeys(StableBytes) : JsonGet(AuditBytes, k) = JsonGet(StableBytes, k)
        /\ StableBytes = StableAsBuilt

\* a completed write whose audit file carries the timestamp and platform detail
C6_Witness ==
    /\ Wrote
    /\ JsonGet(AuditBytes, "utc_timestamp") = Quote(IsoZ(clock))
    /\ JsonGet(AuditBytes, "environment.platform_detail") \in { Quote(p) : p \in Platforms }
    /\ "environment.python" \in JsonKeys(StableBytes)

\* C10 as stated: a write_run_record call with the fingerprint_short of the write
\* before it writes its audit record under another file name and leaves the earlier
\* audit file as it was.
C10_AsStated ==
    [][(SecondWrite /\ Later.a.fingerprint_short = Earlier.a.fingerprint_short)
          => /\ Later.audit # Earlier.audit
             /\ files'[Earlier.audit] = files[Earlier.audit]]_vars

------------------------------------------------------------------------------
\* The orchestrator: runs of run_full_forensics in one process, with direct
\* whiten_pinned calls and changes of configuration and environment in between.

NextRun ==
    \/ SetStrict
    \/ SetControl(PinnedAndAlteredControl)
    \/ SetLib({"gwpy"}, OtherLibVersions)
    \/ Call_whiten_pinned({ MockOk("ok"),
                            OldSignature("whiten() got an unexpected keyword argument 'fftlength'",
                                         "whitened_asd_only") })
    \/ Call_run_full_forensics(Probes, {"Linux-6.1.0-x86_64-with-glibc2.36"}, {0})

SpecRun == Init /\ [][NextRun]_vars

\* one of the gate's checks fails for the run made by this step: strict mode, and
\* the source probed is no readable file, or a dependency is mismatched, or a
\* window is not the preregistered one
GateFails ==
    /\ STRICT_ARCHIVAL
    /\ \/ last'.arg[1].kind # "file"
       \/ PythonMismatched
       \/ MismatchedLibs # {}
       \/ ECHO_WINDOW # <<95, 105>>
       \/ CONTROL_WINDOW # <<150, 160>>

\* C3: a run of run_full_forensics in which a fatal check fails raises, and a run
\* that raises writes nothing: no file of the working directory is created or
\* changed, so an earlier stable artifact stays as it was.
C3_AbortWritesNothing ==
    [][last'.op = "run_full_forensics" =>
          /\ GateFails => last'.kind = "raise"
          /\ last'.kind = "raise" => (files' = files /\ last'.wrote = <<>>)]_vars

\* an aborted run with the stable artifact of an earlier run still in place
C3_Witness ==
    /\ last.op = "run_full_forensics"
    /\ last.kind = "raise"
    /\ last.wrote = <<>>
    /\ writeHist.prev # <<>>
    /\ STABLE_FNAME \in DOMAIN files
    /\ files[STABLE_FNAME] = writeHist.prev[1].stableRead

\* C7: the stable artifact a run of run_full_forensics writes reports
\* whitening_modes_seen as ["pinned_kwargs"] and whiten_fallback_reason as null,
\* whatever runs and direct whiten_pinned calls came before it in the process.
C7_RunStartsFromResetState ==
    (last.op = "run_full_forensics" /\ last.kind = "return") =>
        /\ JsonGet(StableBytes, "execution_flags.whitening_modes_seen") = "[\"pinned_kwargs\"]"
        /\ JsonGet(StableBytes, "execution_flags.whiten_fallback_reason") = "null"
        /\ _WHITEN_MODES_SEEN = {"pinned_kwargs"}
        /\ _WHITEN_FALLBACK_REASON = None

\* a second completed run of the process
C7_Witness ==
    /\ last.op = "run_full_forensics"
    /\ last.kind = "return"
    /\ writeHist.n = 2
    /\ JsonGet(StableBytes, "execution_flags.whitening_modes_seen") = "[\"pinned_kwargs\"]"


------------------------------------------------------------------------------
\* The preregistration check and the writer that repeats it: the windows and the
\* strict flag change, whiten_pinned fills the runtime state, the check is called
\* on its own and from write_run_record.

PinnedAndAlteredEcho == { <<95, 105>>, <<96, 105>> }

NextPrereg ==
    \/ SetStrict
    \/ SetEcho(PinnedAndAlteredEcho)
    \/ SetControl(PinnedAndAlteredControl)
    \/ Call_refresh_code_identity
    \/ Call_whiten_pinned({OldSignature("unexpected keyword argument 'fftlength'", "whitened_asd_only")})
    \/ Call_verify_window_preregistration
    \/ Call_write_run_record({TestArgs}, {"Linux-6.1.0-x86_64-with-glibc2.36"}, {0})

SpecPrereg == Init /\ [][NextPrereg]_vars

\* the outcome of the call made by the last step
LastOutcome == [kind |-> last.kind, cls |-> last.cls, val |-> last.val]

\* C11: a verify_window_preregistration call, returning or raising, leaves the
\* runtime state, the code identity, the live windows, the strict flag and the
\* files as they were; calling it again in the state it leaves gives the outcome
\* it gave; and a write_run_record call that follows it with nothing changed in
\* between passes its own re-verification exactly when the call returned, storing
\* the hash the call returned, and fails with the call's failure otherwise.
C11_VerifyIsIdempotentAndPure ==
    [][/\ last'.op = "verify_window_preregistration" =>
            /\ UNCHANGED <<varsConfig, varsIdentity, varsWhiten, varsFiles>>
            /\ LastOutcome' = verify_window_preregistration(STRICT_ARCHIVAL', ECHO_WINDOW',
                                                            CONTROL_WINDOW')
       /\ (last.op = "verify_window_preregistration" /\ last'.op = "write_run_record") =>
            IF last.kind = "return"
            THEN /\ last'.kind = "return"
                 /\ JsonGet(files'[STABLE_FNAME], "preregistration.hash16") = Quote(last.val[1])
            ELSE /\ LastOutcome' = LastOutcome
                 /\ files' = files]_vars

\* a failing check called with a fallback recorded in the runtime state and an
\* artifact on disk
C11_Witness ==
    /\ last.op = "verify_window_preregistration"
    /\ last.kind = "raise"
    /\ _WHITEN_FALLBACK_REASON # None
    /\ STABLE_FNAME \in DOMAIN files

------------------------------------------------------------------------------
\* Further claims about the strict gate (checked under SpecGate).

\* C12: under strict mode enforce_dependency_versions returns exactly when the
\* runtime's major.minor is the pinned 3.11, whatever its patch component, and
\* gwpy, numpy and scipy each report exactly their pinned version string; in
\* every other case it raises.
C12_SucceedsIffPinned ==
    DepsCalledStrict =>
        (last.kind = "return" <=> (~PythonMismatched /\ MismatchedLibs = {}))

\* a passing strict call on a runtime whose patch component is not the pinned one
C12_Witness ==
    /\ DepsCalledStrict
    /\ last.kind = "return"
    /\ versions.python = <<3, 11, 4>>

\* the probe the last identity refresh or gate initialisation observed
LastProbe == last.arg[1]

FileExecutionMessage ==
    <<"STRICT_ARCHIVAL: Archival runs require file-based execution "
      \o "(cannot verify source integrity in interactive mode).">>

\* C13: for every outcome of probing the running source, refresh_code_identity
\* returns and leaves the identity pair (content hash, "file"), ("interactive",
\* "interactive") or ("error:<message>", "error"); a gate initialisation whose
\* probe did not find a readable file raises nothing but the file-execution
\* failure, and only under strict mode.
C13_IdentityNeverRaises ==
    /\ last.op \in {"refresh_code_identity", "initialize_strict_archival_or_fail"} =>
          /\ CODE_SOURCE_MODE \in {"file", "interactive", "error"}
          /\ CASE LastProbe.kind = "file" ->
                      CODE_SOURCE_MODE = "file" /\ CODE_SHA256 = Sha256Hex(LastProbe.data)
                [] LastProbe.kind = "nofile" ->
                      CODE_SOURCE_MODE = "interactive" /\ CODE_SHA256 = "interactive"
                [] OTHER ->
                      CODE_SOURCE_MODE = "error" /\ CODE_SHA256 = "error:" \o LastProbe.data
    /\ last.op = "refresh_code_identity" => last.kind = "return"
    /\ (last.op = "initialize_strict_archival_or_fail" /\ LastProbe.kind # "file") =>
          IF STRICT_ARCHIVAL
          THEN last.kind = "raise" /\ last.cls = "RuntimeError" /\ last.val = FileExecutionMessage
          ELSE last.kind = "return"

\* a refresh whose read of the source failed
C13_Witness ==
    /\ last.op = "refresh_code_identity"
    /\ LastProbe.kind = "ioerror"
    /\ CODE_SOURCE_MODE = "error"
    /\ CODE_SHA256 = "error:Permission denied"

------------------------------------------------------------------------------
\* Claims about the hash the writer stores (checked under SpecPrereg).

\* the canonical payload of the live windows is the frozen literal
LiveRegeneratesLiteral ==
    CurrentPayload(ECHO_WINDOW, CONTROL_WINDOW) = PREREG_PAYLOAD_LITERAL

StoredHash16 == JsonGet(StableBytes, "preregistration.hash16")

StoredLiteral == JsonGet(StableBytes, "preregistration.payload_literal")

\* C14 as stated: for every value of the live windows and of the strict flag, a
\* write_run_record call that writes stores hash16 = PREREG_HASH16, and a call made
\* while the live windows do not regenerate the literal fails and writes no file.
C14_AsStated ==
    last.op = "write_run_record" =>
        IF LiveRegeneratesLiteral
        THEN last.kind = "return" => StoredHash16 = Quote(PREREG_HASH16)
        ELSE last.kind = "raise" /\ last.wrote = <<>>

\* C14 amended: under strict mode write_run_record writes exactly when the live
\* windows regenerate the literal, and then stores hash16 = PREREG_HASH16 next to
\* the literal; otherwise it raises the preregistration mismatch and leaves every
\* file as it was. Under non-strict mode the write always goes through and stores
\* the truncated hash of the canonical payload of the live windows next to the
\* frozen literal, which is PREREG_HASH16 when the windows regenerate the literal.
C14_StoredHashIsVerifiedUnderStrict ==
    [][last'.op = "write_run_record" =>
        /\ last'.kind = "return" =>
              /\ StoredLiteral' = Quote(PREREG_PAYLOAD_LITERAL)
              /\ StoredHash16' = Quote(Hash16(CurrentPayload(ECHO_WINDOW', CONTROL_WINDOW')))
              /\ LiveRegeneratesLiteral' => StoredHash16' = Quote(PREREG_HASH16)
        /\ STRICT_ARCHIVAL' =>
              IF LiveRegeneratesLiteral'
              THEN last'.kind = "return"
              ELSE /\ last'.kind = "raise"
                   /\ last'.cls = "RuntimeError"
                   /\ last'.val[1] = "STRICT_ARCHIVAL: Window preregistration mismatch!"
                   /\ files' = files
        /\ ~STRICT_ARCHIVAL' => last'.kind = "return"]_vars

\* a strict write refused at its re-verification while an earlier artifact is on disk
C14_Witness ==
    /\ last.op = "write_run_record"
    /\ last.kind = "raise"
    /\ STRICT_ARCHIVAL
    /\ ~LiveRegeneratesLiteral
    /\ STABLE_FNAME \in DOMAIN files
    /\ StoredHash16 = Quote(PREREG_HASH16)

------------------------------------------------------------------------------
\* Further claims about whitening (checked under SpecWhiten).

\* the step calls whiten_pinned and the object's pinned whiten call raises TypeError
PinnedRejected ==
    /\ last'.op = "whiten_pinned"
    /\ last'.arg[1].onPinned.kind = "raise"
    /\ last'.arg[1].onPinned.cls = "TypeError"

\* the step calls whiten_pinned and the object's pinned whiten call raises another class
PinnedBroken ==
    /\ last'.op = "whiten_pinned"
    /\ last'.arg[1].onPinned.kind = "raise"
    /\ last'.arg[1].onPinned.cls # "TypeError"

\* C15: under non-strict mode, a whiten_pinned call whose pinned whiten call raises
\* TypeError adds "asd_only_fallback" and nothing else to the observed modes, calls
\* the object's whiten once more with asd only, and ends as that call ends, with
\* its result when it returns.
C15_NonStrictFallback ==
    [][(PinnedRejected /\ ~STRICT_ARCHIVAL') =>
          /\ _WHITEN_MODES_SEEN' = _WHITEN_MODES_SEEN \cup {"asd_only_fallback"}
          /\ last'.calls = <<PinnedCall, AsdOnlyCall>>
          /\ LastOutcome' = last'.arg[1].onAsdOnly]_vars

\* a fallback that returned the reduced call's result with no pinned tag on record
C15_Witness ==
    /\ last.op = "whiten_pinned"
    /\ ~STRICT_ARCHIVAL
    /\ LastPinned.kind = "raise"
    /\ LastPinned.cls = "TypeError"
    /\ last.kind = "return"
    /\ last.val = <<"whitened_asd_only">>
    /\ _WHITEN_MODES_SEEN = {"asd_only_fallback"}

\* C16: the stored fallback reason is set only by a whiten_pinned call whose pinned
\* call raised TypeError while no reason was stored, to that call's message, under
\* strict and non-strict mode alike; once stored it is kept by every later call,
\* whatever message a later rejection carries, and only reset_runtime_state sets
\* it back to None.
C16_FirstReasonKept ==
    [][/\ _WHITEN_FALLBACK_REASON # None =>
            \/ _WHITEN_FALLBACK_REASON' = _WHITEN_FALLBACK_REASON
            \/ last'.op = "reset_runtime_state" /\ _WHITEN_FALLBACK_REASON' = None
       /\ (_WHITEN_FALLBACK_REASON = None /\ _WHITEN_FALLBACK_REASON' # None) => PinnedRejected
       /\ (PinnedRejected /\ _WHITEN_FALLBACK_REASON = None) =>
            _WHITEN_FALLBACK_REASON' = last'.arg[1].onPinned.val[1]
       /\ last'.op = "reset_runtime_state" => _WHITEN_FALLBACK_REASON' = None]_vars

\* a later rejection with another message, the first message still stored
C16_Witness ==
    /\ last.op = "whiten_pinned"
    /\ LastPinned.kind = "raise"
    /\ LastPinned.cls = "TypeError"
    /\ _WHITEN_FALLBACK_REASON # None
    /\ _WHITEN_FALLBACK_REASON # LastPinned.val[1]

\* C17: a whiten_pinned call whose pinned whiten call raises an exception that is
\* not a TypeError ends with that exception, class and message as raised, under
\* strict and non-strict mode, having called the object's whiten once, and leaves
\* the observed modes, the fallback reason and the fallback flag as they were.
C17_OtherFailuresPropagate ==
    [][PinnedBroken =>
          /\ LastOutcome' = last'.arg[1].onPinned
          /\ last'.calls = <<PinnedCall>>
          /\ UNCHANGED <<_WHITEN_MODES_SEEN, _WHITEN_FALLBACK_REASON,
                         _WHITEN_FALLBACK_LOGGED>>]_vars

\* a ValueError passed on under non-strict mode, after a fallback was recorded
C17_Witness ==
    /\ last.op = "whiten_pinned"
    /\ ~STRICT_ARCHIVAL
    /\ LastPinned.kind = "raise"
    /\ last.cls = "ValueError"
    /\ last.val = <<"bad data">>
    /\ _WHITEN_FALLBACK_LOGGED

FallbackTagged == "asd_only_fallback" \in _WHITEN_MODES_SEEN

\* C20: in every state reached by reset_runtime_state and whiten_pinned calls, a
\* fallback reason is stored exactly when "asd_only_fallback" is among the observed
\* modes, and the fallback flag is set only then; a Stable artifact written in such
\* a state has a non-null whiten_fallback_reason exactly when its
\* whitening_modes_seen lists "asd_only_fallback".
C20_ReasonIffFallbackTag ==
    /\ _WHITEN_FALLBACK_REASON # None <=> FallbackTagged
    /\ _WHITEN_FALLBACK_LOGGED => (FallbackTagged /\ _WHITEN_FALLBACK_REASON # None)
    /\ (last.op = "write_run_record" /\ last.kind = "return") =>
          (JsonGet(StableBytes, "execution_flags.whiten_fallback_reason") # "null"
             <=> JsonGet(StableBytes, "execution_flags.whitening_modes_seen")
                    \in {"[\"asd_only_fallback\"]", "[\"asd_only_fallback\",\"pinned_kwargs\"]"})

\* an artifact written after a rejection under strict mode only: the tag and the
\* reason are on record, the fallback flag is not
C20_Witness ==
    /\ last.op = "write_run_record"
    /\ last.kind = "return"
    /\ FallbackTagged
    /\ ~_WHITEN_FALLBACK_LOGGED
    /\ JsonGet(StableBytes, "execution_flags.whiten_fallback_reason") = Quote("Bad kwarg")

------------------------------------------------------------------------------
\* Further claims about the orchestrator (checked under SpecRun).

RunCalledStrict == last.op = "run_full_forensics" /\ STRICT_ARCHIVAL

WindowsAltered == ECHO_WINDOW # <<95, 105>> \/ CONTROL_WINDOW # <<150, 160>>

DependenciesMismatched == PythonMismatched \/ MismatchedLibs # {}

\* C18: a strict run refreshes the code identity from the source it probes, then
\* checks the execution context, the dependencies and the preregistration in this
\* order and raises the failure of the first check that fails, whatever later
\* checks would have failed too; a run that raises in the gate has not run the
\* whitening self-check and has written nothing; a run whose checks all pass
\* goes on to the self-check and the write.
C18_GateOrder ==
    RunCalledStrict =>
        /\ CODE_SOURCE_MODE = get_code_hash_best_effort(LastProbe)[2]
        /\ CODE_SHA256 = get_code_hash_best_effort(LastProbe)[1]
        /\ IF LastProbe.kind # "file"
           THEN last.kind = "raise" /\ last.val = FileExecutionMessage
           ELSE IF DependenciesMismatched
           THEN /\ last.kind = "raise"
                /\ last.val[1] = "STRICT_ARCHIVAL: Dependency version mismatch detected:"
           ELSE IF WindowsAltered
           THEN /\ last.kind = "raise"
                /\ last.val[1] = "STRICT_ARCHIVAL: Window preregistration mismatch!"
           ELSE /\ last.kind = "return"
                /\ last.wrote # <<>>
                /\ _WHITEN_MODES_SEEN = {"pinned_kwargs"}
        /\ last.kind = "raise" => (last.wrote = <<>> /\ _WHITEN_MODES_SEEN = {})

\* a run in which all three checks would fail, stopped at the execution-context check
C18_Witness ==
    /\ RunCalledStrict
    /\ LastProbe.kind = "nofile"
    /\ DependenciesMismatched
    /\ WindowsAltered
    /\ last.kind = "raise"
    /\ last.val = FileExecutionMessage

------------------------------------------------------------------------------
\* The writer under a running clock: the two readings of utcnow() a write makes,
\* lines 301 and 306, may be any two ticks in order.

TicksBetweenReadings == {0, 1}

NextClock ==
    \/ Tick
    \/ SetStrict
    \/ Call_reset_runtime_state
    \/ Call_whiten_pinned({MockOk("ok"), MockTypeError("Bad kwarg")})
    \/ Call_write_run_record({TestArgs, TestArgsB}, {"Linux-6.1.0-x86_64-with-glibc2.36"},
                             TicksBetweenReadings)

SpecClock == Init /\ [][NextClock]_vars

\* C19 as stated: in every audit file write_run_record writes, the utc_timestamp
\* field and the timestamp in the file name are renderings of one and the same
\* second.
C19_AsStated ==
    Wrote =>
        \E t \in 0..MaxClock :
            /\ JsonGet(AuditBytes, "utc_timestamp") = Quote(IsoZ(t))
            /\ last.wrote[1] = UniqueFname(last.arg[1].fingerprint_short, t)

====
